---- MODULE Spec2Model ----
(***************************************************************************)
(* State-machine model of WebSocketService (src/src/services/websocket.ts) *)
(* the connection manager, its guarded operations and its event registry,  *)
(* together with the socket.io-client sockets it opens and the secure      *)
(* token store it reads.                                                   *)
(*                                                                         *)
(* JavaScript runs the service on one thread: every action below is one    *)
(* run-to-completion piece of code (a public method up to its first await, *)
(* the continuation after an await, or one socket callback).               *)
(***************************************************************************)
EXTENDS Integers, Sequences, FiniteSets, Bags, TLC

\* ------------------------------------------------------------------ bounds
MaxSockets == 2      \* sockets io() may open in one behaviour
MaxPending == 1      \* calls that may wait for the token store at once
MaxConnects == 2     \* 'connect' events the sockets may fire in one behaviour
MaxRegistered == 3   \* registrations held by the event registry at once
MaxTimers == 8       \* typing expiry timers ChatScreen starts in one behaviour
MaxSetups == 2       \* runs of ChatScreen's setupWebSocketConnection in one behaviour

\* --------------------------------------------------------------- constants
maxRetries == 3      \* getAuthTokenWithRetry default argument

Null == "null"
Undefined == "undefined"
\* User ids passed to connect(); reconnect() supplies the call without one.
Users == {"u1", "u2"}
Token == "tok"

\* Names the service forwards from the socket to the registry.
ForwardedNames ==
  {"new_message", "message_read", "room_joined", "room_left", "user_typing",
   "user_online", "user_offline", "user_joined_room"}
\* Names screens subscribe to that setupEventListeners never forwards.
UnforwardedNames == {"chat_invitation_received", "active_users_list"}
LifecycleNames == {"connect", "connect_error", "disconnect", "error"}
\* Every name a socket can carry a handler for or the server can send.
SocketNames == ForwardedNames \cup UnforwardedNames \cup LifecycleNames
\* Names the server sends as application events.
ServerNames == ForwardedNames \cup UnforwardedNames
\* Names callers subscribe to in the registry (bounded selection).
RegistryNames ==
  {"new_message", "room_joined", "disconnected", "error", "chat_invitation_received"}
\* Event payloads are objects.
Payloads == {[id |-> "d1"], [id |-> "d2"]}
Reasons == {"transport close", "ping timeout"}
ClientReason == "io client disconnect"

\* Listener references; Throwing are the callbacks that raise when invoked.
Listeners == {"A", "B"}
Throwing == {"B"}
\* Callbacks that call back into the registry while they are being dispatched:
\* Remover runs off(event, Target), Adder runs on(event, Target), for the event
\* they were invoked with.
Remover == "R"
Adder == "G"
Target == "A"
Callbacks == {Target, Remover, Adder}

VARIABLES
  socket,           \* this.socket: 0 for null, else the index of a socket
  isConnected,      \* this.isConnected
  reconnectAttempts,\* this.reconnectAttempts
  currentUserId,    \* this.currentUserId (Null or a user id)
  eventListeners,   \* this.eventListeners: name -> listeners in insertion order
  sockets,          \* every socket io() returned so far, in creation order
  calls,            \* the connect()/reconnect() calls that have not reached io()
  out,              \* what the latest step returned, emitted and dispatched
  chat              \* ChatScreen: its state, its refs and its pending timers

vars ==
  <<socket, isConnected, reconnectAttempts, currentUserId, eventListeners,
    sockets, calls, out, chat>>

\* ------------------------------------------------------------ sequences
RECURSIVE SeqRemove(_, _)
SeqRemove(s, x) ==
  IF s = <<>> THEN <<>>
  ELSE IF Head(s) = x THEN SeqRemove(Tail(s), x)
  ELSE <<Head(s)>> \o SeqRemove(Tail(s), x)

SeqRange(s) == {s[i] : i \in 1..Len(s)}

RECURSIVE Repeat(_, _)
Repeat(s, n) == IF n = 0 THEN <<>> ELSE s \o Repeat(s, n - 1)

\* ------------------------------------------------------- event registry
\* Map.get(event): the listener set of a name, <<>> standing for undefined.
ListenersOf(reg, event) == IF event \in DOMAIN reg THEN reg[event] ELSE <<>>

SetAddAlways(s, x) == Append(s, x)

\* Set.add keeps one entry per reference, in insertion order.
SetAdd(s, x) == IF x \in SeqRange(s) THEN s ELSE Append(s, x)

RegistryOn(reg, event, listener) ==
  LET withKey == IF event \in DOMAIN reg THEN reg
                 ELSE [e \in DOMAIN reg \cup {event} |->
                         IF e = event THEN <<>> ELSE reg[e]]
  IN [withKey EXCEPT ![event] = SetAdd(withKey[event], listener)]

RegistryOffEverywhere(reg, event, listener) ==
  LET cut == [e \in DOMAIN reg |-> SeqRemove(reg[e], listener)]
  IN [e \in {x \in DOMAIN reg : cut[x] # <<>>} |-> cut[e]]

RegistryOffKeepsKey(reg, event, listener) ==
  IF event \in DOMAIN reg
  THEN [reg EXCEPT ![event] = SeqRemove(reg[event], listener)]
  ELSE reg

RegistryOff(reg, event, listener) ==
  IF event \in DOMAIN reg
  THEN LET rest == SeqRemove(reg[event], listener)
       IN IF Len(rest) = 0
          THEN [e \in DOMAIN reg \ {event} |-> reg[e]]
          ELSE [reg EXCEPT ![event] = rest]
  ELSE reg

RegistrySize(reg) ==
  LET RECURSIVE Sum(_)
      Sum(S) == IF S = {} THEN 0
                ELSE LET e == CHOOSE x \in S : TRUE
                     IN Len(reg[e]) + Sum(S \ {e})
  IN Sum(DOMAIN reg)

\* One listener call: the invocation record, and whether it raised.
Invocation(event, data, listener) ==
  [event |-> event, data |-> data, listener |-> listener]

\* listener(data): the call returns or raises.
Invoke(listener) == IF listener \in Throwing THEN "raised" ELSE "returned"

\* The registry after the body of a listener invoked for `event` has run.
Effect(reg, event, listener) ==
  IF listener = Remover THEN RegistryOff(reg, event, Target)
  ELSE IF listener = Adder THEN RegistryOn(reg, event, Target)
  ELSE reg

\* Position of x in s, 0 when absent.
IndexOf(s, x) ==
  IF x \in SeqRange(s) THEN CHOOSE i \in 1..Len(s) : s[i] = x ELSE 0

\* listeners.forEach(...): Set.prototype.forEach walks the live set in insertion
\* order, so an entry deleted before it is reached is skipped and an entry added
\* during the walk is reached; the try/catch around each call swallows a raise,
\* and the loop goes on. pos is the position of the entry to visit next. (The
\* listener being invoked is never the one removed, so the set that is walked
\* stays the set the registry holds.)
RECURSIVE EmitLoop(_, _, _, _)
EmitLoop(reg, event, data, pos) ==
  LET ls == ListenersOf(reg, event)
  IN IF pos > Len(ls) THEN [delivered |-> <<>>, threw |-> FALSE, reg |-> reg]
     ELSE LET call == Invoke(ls[pos])
              after == Effect(reg, event, ls[pos])
              rest == EmitLoop(after, event, data,
                               IndexOf(ListenersOf(after, event), ls[pos]) + 1)
          IN [delivered |-> <<Invocation(event, data, ls[pos])>> \o rest.delivered,
              threw |-> rest.threw, reg |-> rest.reg]

RECURSIVE EmitLoopUncaught(_, _, _, _)
EmitLoopUncaught(reg, event, data, pos) ==
  LET ls == ListenersOf(reg, event)
  IN IF pos > Len(ls) THEN [delivered |-> <<>>, threw |-> FALSE, reg |-> reg]
     ELSE IF Invoke(ls[pos]) = "raised"
          THEN [delivered |-> <<Invocation(event, data, ls[pos])>>, threw |-> TRUE,
                reg |-> reg]
          ELSE LET after == Effect(reg, event, ls[pos])
                   rest == EmitLoopUncaught(after, event, data,
                             IndexOf(ListenersOf(after, event), ls[pos]) + 1)
               IN [delivered |-> <<Invocation(event, data, ls[pos])>> \o rest.delivered,
                   threw |-> rest.threw, reg |-> rest.reg]

EmitUncaught(reg, event, data) == EmitLoopUncaught(reg, event, data, 1)

\* emit(event, data)
Emit(reg, event, data) == EmitLoop(reg, event, data, 1)

\* n handlers of one socket event each run emit(event, data), one after another.
RECURSIVE EmitPasses(_, _, _, _)
EmitPasses(reg, event, data, n) ==
  IF n = 0 THEN [delivered |-> <<>>, threw |-> FALSE, reg |-> reg]
  ELSE LET first == Emit(reg, event, data)
           rest == EmitPasses(first.reg, event, data, n - 1)
       IN [delivered |-> first.delivered \o rest.delivered,
           threw |-> first.threw \/ rest.threw, reg |-> rest.reg]

\* ------------------------------------------------------------- sockets
NoHandlers == [n \in SocketNames |-> 0]

\* socket.on(name, fn): one more handler under the name.
AddHandler(h, name) == [h EXCEPT ![name] = @ + 1]

\* The four handlers connect() registers on the socket it opened.
LifecycleHandlers ==
  AddHandler(AddHandler(AddHandler(AddHandler(NoHandlers,
    "connect"), "connect_error"), "disconnect"), "error")

SetupHandlersDropsOne(h) ==
  AddHandler(AddHandler(AddHandler(AddHandler(AddHandler(
  AddHandler(AddHandler(AddHandler(AddHandler(h,
    "new_message"), "message_read"), "room_joined"), "room_left"),
    "user_typing"), "user_online"), "user_offline"),
    "room_joined"), "room_left")

SetupHandlersForwardsInvitations(h) ==
  AddHandler(AddHandler(AddHandler(AddHandler(AddHandler(AddHandler(
  AddHandler(AddHandler(AddHandler(AddHandler(AddHandler(h,
    "new_message"), "message_read"), "room_joined"), "room_left"),
    "user_typing"), "user_online"), "user_offline"),
    "room_joined"), "room_left"), "user_joined_room"), "chat_invitation_received")

\* The ten handlers one run of setupEventListeners registers.
SetupHandlers(h) ==
  AddHandler(AddHandler(AddHandler(AddHandler(AddHandler(
  AddHandler(AddHandler(AddHandler(AddHandler(AddHandler(h,
    "new_message"), "message_read"), "room_joined"), "room_left"),
    "user_typing"), "user_online"), "user_offline"),
    "room_joined"), "room_left"), "user_joined_room")

\* userId || null, and currentUserId || undefined
OrNull(x) == IF x \in {Undefined, Null, ""} THEN Null ELSE x
OrUndefined(x) == IF x \in {Undefined, Null, ""} THEN Undefined ELSE x

\* io(url, opts) and the promise connect() returns for it: the socket starts
\* connecting on its own (autoConnect); promise is the state of the promise whose
\* resolve() its 'connect' and 'connect_error' handlers hold; arg is the userId
\* argument of the connect() call that opened it.
NewSocket(token, userId, arg) ==
  [status |-> "connecting", auth |-> [token |-> token, userId |-> userId],
   handlers |-> LifecycleHandlers, connects |-> 0, promise |-> "pending",
   arg |-> arg]

\* this.socket?.connected
SocketConnected == socket # 0 /\ sockets[socket].status = "connected"

\* get connected()
Connected == isConnected /\ SocketConnected

\* getConnectionStatus()
GetConnectionStatus ==
  [connected |-> Connected, reconnectAttempts |-> reconnectAttempts,
   userId |-> currentUserId]

\* ------------------------------------------------------- step observation
NoPayload == [none |-> TRUE]

\* What the latest step did: the operation, its argument, what it returned or
\* the value a promise was settled with ("none" when no promise was settled),
\* the socket it concerned, the outbound emissions, the listener calls, whether
\* an exception left it, whether an on/off call changed the registry, the
\* value a socket callback received, and the calls made to the REST client.
Out(op, arg, ret, sock, emitted, delivered, threw) ==
  [op |-> op, arg |-> arg, ret |-> ret, sock |-> sock, emitted |-> emitted,
   delivered |-> delivered, threw |-> threw, changed |-> FALSE, data |-> NoPayload,
   api |-> <<>>]

\* A socket callback that dispatched `event` after it received `data`.
DispatchOut(op, event, data, sock, e) ==
  [Out(op, event, "void", sock, <<>>, e.delivered, e.threw) EXCEPT !.data = data]

RegistryOut(op, event, listener, changed) ==
  [Out(op, event, listener, 0, <<>>, <<>>, FALSE) EXCEPT !.changed = changed]

Emission(s, name, payload) == [sock |-> s, name |-> name, payload |-> payload]

\* ------------------------------------------------------------ promises
\* A promise settles once: resolve() on a settled promise is ignored.
ResolveLastWins(cur, v) == v
Resolve(cur, v) == IF cur = "pending" THEN v ELSE cur

\* The value a resolve(v) settles the promise with, "none" if it is settled.
Settles(cur, v) == IF cur = "pending" THEN v ELSE "none"

\* A call between its start and io(): kind is the public method, pc the await it
\* is suspended at, userId the argument of connect, i the loop index of
\* getAuthTokenWithRetry, held the user id cached when reconnect() was called.
NewCall(kind, pc, userId, held) ==
  [kind |-> IF kind = "connect" THEN kind ELSE "reconnect", pc |-> pc, userId |-> userId, i |-> 0, reads |-> 0,
   waits |-> 0, held |-> held]

Pending == BagToSet(calls)
Replace(c, d) == (calls (-) SetToBag({c})) (+) SetToBag({d})
Remove(c) == calls (-) SetToBag({c})

\* Every pending call may still open a socket.
CanStartCall ==
  /\ BagCardinality(calls) < MaxPending
  /\ Len(sockets) + BagCardinality(calls) < MaxSockets

\* ------------------------------------------- ChatScreen's registry listeners
\* The useCallback listeners whose body changes what the screen shows as its
\* connection: handleDisconnected and handleWebSocketError run
\* setIsConnected(false).
HandleDisconnected == "handleDisconnected"
HandleWebSocketError == "handleWebSocketError"

\* The screen after the listeners of one dispatch have run.
RECURSIVE ChatEffect(_, _)
ChatEffect(ch, delivered) ==
  IF delivered = <<>> THEN ch
  ELSE ChatEffect(
         IF Head(delivered).listener \in {HandleDisconnected, HandleWebSocketError}
         THEN [ch EXCEPT !.isConnected = FALSE]
         ELSE ch,
         Tail(delivered))

\* ---------------------------------------------------------- disconnect()
\* socket.disconnect() on a connected socket fires its 'disconnect' handler
\* with "io client disconnect" before it returns; the handler clears the flag
\* and dispatches `disconnected`.
DisconnectKeepsUserId ==
  IF socket = 0
  THEN [socket |-> socket, isConnected |-> isConnected,
        currentUserId |-> currentUserId, sockets |-> sockets, delivered |-> <<>>,
        reg |-> eventListeners]
  ELSE LET e == IF sockets[socket].status = "connected"
                THEN Emit(eventListeners, "disconnected", [reason |-> ClientReason])
                ELSE [delivered |-> <<>>, threw |-> FALSE, reg |-> eventListeners]
       IN [socket |-> 0, isConnected |-> FALSE, currentUserId |-> currentUserId,
           sockets |-> [sockets EXCEPT ![socket].status = "closed"],
           delivered |-> e.delivered, reg |-> e.reg]

DisconnectResult ==
  IF socket = 0
  THEN [socket |-> socket, isConnected |-> isConnected,
        currentUserId |-> currentUserId, sockets |-> sockets, delivered |-> <<>>,
        reg |-> eventListeners]
  ELSE LET e == IF sockets[socket].status = "connected"
                THEN Emit(eventListeners, "disconnected", [reason |-> ClientReason])
                ELSE [delivered |-> <<>>, threw |-> FALSE, reg |-> eventListeners]
       IN [socket |-> 0, isConnected |-> FALSE, currentUserId |-> Null,
           sockets |-> [sockets EXCEPT ![socket].status = "closed"],
           delivered |-> e.delivered, reg |-> e.reg]

DisconnectClearsRegistry ==
  LET d == DisconnectResult
  IN /\ socket' = d.socket
     /\ isConnected' = d.isConnected
     /\ currentUserId' = d.currentUserId
     /\ sockets' = d.sockets
     /\ eventListeners' = [e \in {} |-> <<>>]
     /\ out' = Out("disconnect", Undefined, "void", socket, <<>>, d.delivered, FALSE)
     /\ chat' = ChatEffect(chat, d.delivered)
     /\ UNCHANGED <<reconnectAttempts, calls>>

Disconnect ==
  LET d == DisconnectResult
  IN /\ socket' = d.socket
     /\ isConnected' = d.isConnected
     /\ currentUserId' = d.currentUserId
     /\ sockets' = d.sockets
     /\ eventListeners' = d.reg
     /\ out' = Out("disconnect", Undefined, "void", socket, <<>>, d.delivered, FALSE)
     /\ chat' = ChatEffect(chat, d.delivered)
     /\ UNCHANGED <<reconnectAttempts, calls>>

\* ------------------------------------------------------------- connect()
\* connect(userId) up to its first await, called by `kind` (the caller itself
\* or reconnect(), which held `held` when it was called); `others` are the
\* other pending calls.
ConnectEntryAlwaysFetches(kind, userId, held, others) ==
  /\ out' = Out(kind, userId, "pending", 0, <<>>, <<>>, FALSE)
  /\ calls' = others (+) SetToBag({NewCall(kind, "read", userId, held)})
  /\ UNCHANGED <<socket, isConnected, reconnectAttempts, currentUserId,
                 eventListeners, sockets>>

ConnectEntry(kind, userId, held, others) ==
  /\ IF SocketConnected
     THEN /\ out' = Out(kind, userId, "true", socket, <<>>, <<>>, FALSE)
          /\ calls' = others
     ELSE /\ out' = Out(kind, userId, "pending", 0, <<>>, <<>>, FALSE)
          /\ calls' = others (+) SetToBag({NewCall(kind, "read", userId, held)})
  /\ UNCHANGED <<socket, isConnected, reconnectAttempts, currentUserId,
                 eventListeners, sockets>>

Connect(userId) ==
  /\ CanStartCall
  /\ ConnectEntry("connect", userId, Null, calls)
  /\ UNCHANGED chat

\* The continuation of connect() once getAuthTokenWithRetry returned a token:
\* the user id is cached, the socket is opened, its handlers are registered and
\* the call waits for the socket.
OpenSocket(c) ==
  /\ currentUserId' = OrNull(c.userId)
  /\ sockets' = Append(sockets, NewSocket(Token, OrNull(c.userId), c.userId))
  /\ socket' = Len(sockets) + 1
  /\ calls' = Remove(c)
  /\ out' = Out("await", Undefined, "pending", 0, <<>>, <<>>, FALSE)
  /\ UNCHANGED <<isConnected, reconnectAttempts, eventListeners, chat>>

\* One attempt of getAuthTokenWithRetry that yielded no token (an empty read
\* or a read that threw): sleep before the next attempt, or give up after the
\* last one, which makes connect() return false.
NoTokenCachesUserId(c) ==
  /\ IF c.i < maxRetries - 1
     THEN /\ calls' = Replace(c, [c EXCEPT !.pc = "sleep", !.reads = @ + 1,
                                           !.waits = @ + 1])
          /\ out' = Out("await", Undefined, "pending", 0, <<>>, <<>>, FALSE)
     ELSE /\ calls' = Remove(c)
          /\ out' = Out("no_token", c.userId, "false", 0, <<>>, <<>>, FALSE)
  /\ currentUserId' = OrNull(c.userId)
  /\ UNCHANGED <<socket, isConnected, reconnectAttempts, eventListeners, sockets, chat>>

NoTokenWaitsAfterLast(c) ==
  /\ IF c.i < maxRetries
     THEN /\ calls' = Replace(c, [c EXCEPT !.pc = "sleep", !.reads = @ + 1,
                                           !.waits = @ + 1])
          /\ out' = Out("await", Undefined, "pending", 0, <<>>, <<>>, FALSE)
     ELSE /\ calls' = Remove(c)
          /\ out' = Out("no_token", c.userId, "false", 0, <<>>, <<>>, FALSE)
  /\ UNCHANGED <<socket, isConnected, reconnectAttempts, currentUserId,
                 eventListeners, sockets, chat>>

NoToken(c) ==
  /\ IF c.i < maxRetries - 1
     THEN /\ calls' = Replace(c, [c EXCEPT !.pc = "sleep", !.reads = @ + 1,
                                           !.waits = @ + 1])
          /\ out' = Out("await", Undefined, "pending", 0, <<>>, <<>>, FALSE)
     ELSE /\ calls' = Remove(c)
          /\ out' = Out("no_token", c.userId, "false", 0, <<>>, <<>>, FALSE)
  /\ UNCHANGED <<socket, isConnected, reconnectAttempts, currentUserId,
                 eventListeners, sockets, chat>>

\* SecureStore.getItemAsync('auth_token') settles: with a token, with nothing,
\* or by throwing.
TokenFound(c) ==
  /\ c.pc = "read"
  /\ OpenSocket(c)

TokenEmpty(c) ==
  /\ c.pc = "read"
  /\ NoToken(c)

TokenThrows(c) ==
  /\ c.pc = "read"
  /\ NoToken(c)

\* The delay between two attempts elapses; the loop starts the next read.
TokenRetry(c) ==
  /\ c.pc = "sleep"
  /\ calls' = Replace(c, [c EXCEPT !.pc = "read", !.i = @ + 1])
  /\ out' = Out("await", Undefined, "pending", 0, <<>>, <<>>, FALSE)
  /\ UNCHANGED <<socket, isConnected, reconnectAttempts, currentUserId,
                 eventListeners, sockets, chat>>

\* ----------------------------------------------------------- reconnect()
\* reconnect() up to its await: disconnect(), then the delay timer.
Reconnect ==
  /\ CanStartCall
  /\ LET d == DisconnectResult
     IN /\ socket' = d.socket
        /\ isConnected' = d.isConnected
        /\ currentUserId' = d.currentUserId
        /\ sockets' = d.sockets
        /\ calls' = calls (+) SetToBag({NewCall("reconnect", "delay", Undefined,
                                                currentUserId)})
        /\ eventListeners' = d.reg
        /\ out' = Out("reconnect", Undefined, "pending", socket, <<>>,
                      d.delivered, FALSE)
        /\ chat' = ChatEffect(chat, d.delivered)
        /\ UNCHANGED reconnectAttempts

\* The user id reconnect() hands to connect() once the delay has elapsed.
ReconnectUserId(c) == OrUndefined(currentUserId)

\* The delay elapsed: connect(this.currentUserId || undefined) runs to its
\* first await.
ReconnectDelayElapsed(c) ==
  /\ c.pc = "delay"
  /\ ConnectEntry("reconnect_connect", ReconnectUserId(c), c.held, Remove(c))
  /\ UNCHANGED chat

\* ------------------------------------------------------- socket callbacks
\* setupEventListeners(): registers on this.socket, whichever socket fired.
SetupEventListeners(ss) ==
  IF socket = 0 THEN ss
  ELSE [ss EXCEPT ![socket].handlers = SetupHandlers(@)]

\* Which sockets the library may still fire events on: a socket closed by
\* socket.disconnect() is silent.
Attempting(s) == s \in 1..Len(sockets) /\ sockets[s].status = "connecting"
Live(s) == s \in 1..Len(sockets) /\ sockets[s].status = "connected"

RECURSIVE ConnectsFired(_)
ConnectsFired(n) == IF n = 0 THEN 0 ELSE sockets[n].connects + ConnectsFired(n - 1)

\* socket.on('connect'): first connection or an automatic reconnection.
SocketConnect(s) ==
  /\ Attempting(s)
  /\ ConnectsFired(Len(sockets)) < MaxConnects
  /\ isConnected' = TRUE
  /\ reconnectAttempts' = 0
  /\ sockets' = SetupEventListeners(
                  [sockets EXCEPT ![s].status = "connected", ![s].connects = @ + 1,
                                  ![s].promise = Resolve(@, "true")])
  /\ out' = Out("on_connect", Undefined,
                Settles(sockets[s].promise, "true"), s, <<>>, <<>>, FALSE)
  /\ UNCHANGED <<socket, currentUserId, eventListeners, calls, chat>>

\* socket.on('connect_error'): the library keeps retrying (reconnection: true).
SocketConnectError(s) ==
  /\ Attempting(s)
  /\ isConnected' = FALSE
  /\ sockets' = [sockets EXCEPT ![s].promise = Resolve(@, "false")]
  /\ out' = Out("on_connect_error", Undefined,
                Settles(sockets[s].promise, "false"), s, <<>>, <<>>, FALSE)
  /\ UNCHANGED <<socket, reconnectAttempts, currentUserId, eventListeners, calls, chat>>

SocketDisconnectDropsHandle(s, reason) ==
  /\ Live(s)
  /\ isConnected' = FALSE
  /\ socket' = 0
  /\ sockets' = [sockets EXCEPT ![s].status = "connecting"]
  /\ LET e == Emit(eventListeners, "disconnected", [reason |-> reason])
     IN /\ eventListeners' = e.reg
        /\ out' = DispatchOut("on_disconnect", "disconnected", [reason |-> reason], s, e)
        /\ chat' = ChatEffect(chat, e.delivered)
  /\ UNCHANGED <<reconnectAttempts, currentUserId, calls>>

\* socket.on('disconnect'): the transport dropped; the library reconnects
\* (reconnection: true), so the socket is connecting again.
SocketDisconnect(s, reason) ==
  /\ Live(s)
  /\ isConnected' = FALSE
  /\ sockets' = [sockets EXCEPT ![s].status = "connecting"]
  /\ LET e == Emit(eventListeners, "disconnected", [reason |-> reason])
     IN /\ eventListeners' = e.reg
        /\ out' = DispatchOut("on_disconnect", "disconnected", [reason |-> reason], s, e)
        /\ chat' = ChatEffect(chat, e.delivered)
  /\ UNCHANGED <<socket, reconnectAttempts, currentUserId, calls>>

SocketErrorClearsFlag(s, err) ==
  /\ Live(s)
  /\ isConnected' = FALSE
  /\ LET e == Emit(eventListeners, "error", err)
     IN /\ eventListeners' = e.reg
        /\ out' = DispatchOut("on_error", "error", err, s, e)
        /\ chat' = ChatEffect(chat, e.delivered)
  /\ UNCHANGED <<socket, reconnectAttempts, currentUserId, sockets, calls>>

\* socket.on('error')
SocketError(s, err) ==
  /\ Live(s)
  /\ LET e == Emit(eventListeners, "error", err)
     IN /\ eventListeners' = e.reg
        /\ out' = DispatchOut("on_error", "error", err, s, e)
        /\ chat' = ChatEffect(chat, e.delivered)
  /\ UNCHANGED <<socket, isConnected, reconnectAttempts, currentUserId, sockets, calls>>

\* The server sends an application event: every handler the socket holds under
\* that name runs, each one re-emitting it through the registry.
SocketInbound(s, name, data) ==
  /\ Live(s)
  /\ LET e == EmitPasses(eventListeners, name, data, sockets[s].handlers[name])
     IN /\ eventListeners' = e.reg
        /\ out' = DispatchOut("inbound", name, data, s, e)
        /\ chat' = ChatEffect(chat, e.delivered)
  /\ UNCHANGED <<socket, isConnected, reconnectAttempts, currentUserId, sockets, calls>>

\* ---------------------------------------------------- guarded operations
\* if (!this.socket?.connected) return fail; this.socket.emit(name, payload);
\* return ok
GuardedEmitTwice(op, name, payload, ok, fail) ==
  /\ IF SocketConnected
     THEN out' = Out(op, name, ok, socket,
                     <<Emission(socket, name, payload), Emission(socket, name, payload)>>,
                     <<>>, FALSE)
     ELSE out' = Out(op, name, fail, 0, <<>>, <<>>, FALSE)
  /\ UNCHANGED <<socket, isConnected, reconnectAttempts, currentUserId,
                 eventListeners, sockets, calls, chat>>

\* What a guarded operation returns and emits.
GuardedResult(name, payload, ok, fail) ==
  IF SocketConnected
  THEN [ret |-> ok, sock |-> socket, emitted |-> <<Emission(socket, name, payload)>>]
  ELSE [ret |-> fail, sock |-> 0, emitted |-> <<>>]

GuardedEmit(op, name, payload, ok, fail) ==
  /\ LET r == GuardedResult(name, payload, ok, fail)
     IN out' = Out(op, name, r.ret, r.sock, r.emitted, <<>>, FALSE)
  /\ UNCHANGED <<socket, isConnected, reconnectAttempts, currentUserId,
                 eventListeners, sockets, calls, chat>>

Recipients == {"u2"}
Contents == {"hi"}
MessageTypes == {"TEXT"}
MessageIds == {"m1"}
InvitationIds == {"i1"}
CustomEvents == {"custom"}

JoinRoom(recipientId) ==
  GuardedEmit("joinRoom", "join_room", [recipientId |-> recipientId], "void", "void")

LeaveRoom(recipientId) ==
  GuardedEmit("leaveRoom", "leave_room", [recipientId |-> recipientId], "void", "void")

SendMessage(recipientId, content, type) ==
  GuardedEmit("sendMessage", "send_message",
              [recipientId |-> recipientId, content |-> content, type |-> type],
              "true", "false")

MarkMessageAsRead(messageId) ==
  GuardedEmit("markMessageAsRead", "mark_message_read", [messageId |-> messageId],
              "void", "void")

SendTypingStatus(recipientId, isTyping) ==
  GuardedEmit("sendTypingStatus", "typing",
              [recipientId |-> recipientId, isTyping |-> isTyping], "void", "void")

GetActiveUsers ==
  GuardedEmit("getActiveUsers", "get_active_users", NoPayload, "void", "void")

SendChatInvitation(recipientId, message) ==
  GuardedEmit("sendChatInvitation", "send_chat_invitation",
              [recipientId |-> recipientId, message |-> message], "true", "false")

AcceptChatInvitation(invitationId) ==
  GuardedEmit("acceptChatInvitation", "accept_chat_invitation",
              [invitationId |-> invitationId], "true", "false")

RejectChatInvitation(invitationId) ==
  GuardedEmit("rejectChatInvitation", "reject_chat_invitation",
              [invitationId |-> invitationId], "true", "false")

EmitEvent(event, data) ==
  GuardedEmit("emitEvent", event, data, "true", "false")

GuardedOps ==
  {"joinRoom", "leaveRoom", "sendMessage", "markMessageAsRead", "sendTypingStatus",
   "getActiveUsers", "sendChatInvitation", "acceptChatInvitation",
   "rejectChatInvitation", "emitEvent"}

\* ------------------------------------------------------- registry calls
On(event, listener) ==
  /\ RegistrySize(RegistryOn(eventListeners, event, listener)) <= MaxRegistered
  /\ eventListeners' = RegistryOn(eventListeners, event, listener)
  /\ out' = RegistryOut("on", event, listener, eventListeners' # eventListeners)
  /\ UNCHANGED <<socket, isConnected, reconnectAttempts, currentUserId, sockets, calls, chat>>

Off(event, listener) ==
  /\ eventListeners' = RegistryOff(eventListeners, event, listener)
  /\ out' = RegistryOut("off", event, listener, eventListeners' # eventListeners)
  /\ UNCHANGED <<socket, isConnected, reconnectAttempts, currentUserId, sockets, calls, chat>>

\* ------------------------------------------------------------ ChatScreen
\* Users whose typing events reach the screen; Partner is the user
\* loadInitialData selects.
Partner == "u2"
TypingUsers == {"u2", "u3", "u4"}

\* useState / useRef initial values (0 for the null timer ref); timers are the
\* pending setTimeout ids of the typing expiry, nextTimer the id the next
\* setTimeout returns. mounted is whether the unmount cleanup has yet to run,
\* setups the runs of setupWebSocketConnection so far, resumed the sockets whose
\* connect() promise a run has resumed on, immediate the runs whose connect()
\* returned true at once and have not resumed, inline the `room_joined` arrow
\* functions created so far, apiCall the pending apiService.sendMessage call
\* with the isConnected value its sendMessage closure holds.
ChatInit ==
  [partner |-> Null, partnerTyping |-> FALSE, typingTimeoutRef |-> 0,
   timers |-> {}, nextTimer |-> 1, isConnected |-> FALSE, sending |-> FALSE,
   mounted |-> TRUE, setups |-> 0, resumed |-> {}, immediate |-> 0, inline |-> 0,
   apiCall |-> <<>>]

\* loadInitialData: setPartner(selectedPartner)
SetPartner ==
  /\ chat.partner = Null
  /\ chat' = [chat EXCEPT !.partner = Partner]
  /\ out' = Out("setPartner", Partner, "void", 0, <<>>, <<>>, FALSE)
  /\ UNCHANGED <<socket, isConnected, reconnectAttempts, currentUserId,
                 eventListeners, sockets, calls>>

\* clearTimeout(id): a pending timer is cancelled, any other id is ignored.
ClearTimeout(timers, id) == timers \ {id}

TypingEvent(userId, isTyping) == [userId |-> userId, isTyping |-> isTyping]

HandleUserTypingKeepsTimer(userId, isTyping) ==
  /\ isTyping /\ userId = chat.partner => chat.nextTimer <= MaxTimers
  /\ chat' =
       IF userId = chat.partner
       THEN IF isTyping
            THEN [chat EXCEPT !.partnerTyping = TRUE,
                              !.timers = @ \cup {chat.nextTimer},
                              !.typingTimeoutRef = chat.nextTimer,
                              !.nextTimer = @ + 1]
            ELSE [chat EXCEPT !.partnerTyping = FALSE]
       ELSE chat
  /\ out' = [Out("handleUserTyping", userId, "void", 0, <<>>, <<>>, FALSE)
               EXCEPT !.data = TypingEvent(userId, isTyping)]
  /\ UNCHANGED <<socket, isConnected, reconnectAttempts, currentUserId,
                 eventListeners, sockets, calls>>

\* handleUserTyping(data), the `user_typing` listener of the screen.
HandleUserTyping(userId, isTyping) ==
  /\ isTyping /\ userId = chat.partner => chat.nextTimer <= MaxTimers
  /\ chat' =
       IF userId = chat.partner
       THEN IF isTyping
            THEN [chat EXCEPT !.partnerTyping = TRUE,
                              !.timers = ClearTimeout(@, chat.typingTimeoutRef)
                                           \cup {chat.nextTimer},
                              !.typingTimeoutRef = chat.nextTimer,
                              !.nextTimer = @ + 1]
            ELSE [chat EXCEPT !.partnerTyping = FALSE]
       ELSE chat
  /\ out' = [Out("handleUserTyping", userId, "void", 0, <<>>, <<>>, FALSE)
               EXCEPT !.data = TypingEvent(userId, isTyping)]
  /\ UNCHANGED <<socket, isConnected, reconnectAttempts, currentUserId,
                 eventListeners, sockets, calls>>

\* The 3-second timer t expires: setPartnerTyping(false).
TypingTimeoutFires(t) ==
  /\ t \in chat.timers
  /\ chat' = [chat EXCEPT !.partnerTyping = FALSE, !.timers = @ \ {t}]
  /\ out' = Out("typingTimeout", t, "void", 0, <<>>, <<>>, FALSE)
  /\ UNCHANGED <<socket, isConnected, reconnectAttempts, currentUserId,
                 eventListeners, sockets, calls>>

\* ------------------------------------------- ChatScreen: connection setup
\* useAuth().user.id, the argument of websocketService.connect
ChatUser == "u1"

\* The identity of handleUserTyping, useCallback(..., [partner?.id]): one
\* function per value of partner?.id. The other useCallback listeners have no
\* dependencies and keep one identity for the life of the screen.
HandleUserTypingOf(p) ==
  IF p = Null THEN "handleUserTyping(undefined)" ELSE "handleUserTyping(partner.id)"

\* The arrow functions setupWebSocketConnection passes for `room_joined`, one
\* new function per run.
InlineListeners == <<"roomJoined#1", "roomJoined#2", "roomJoined#3", "roomJoined#4">>

\* The (name, listener) pairs of the eight named listeners, as seen by code
\* that closed over partner p.
NamedRegistrations(p) ==
  << <<"new_message", "handleNewMessage">>,
     <<"user_typing", HandleUserTypingOf(p)>>,
     <<"message_read", "handleMessageRead">>,
     <<"error", HandleWebSocketError>>,
     <<"disconnected", HandleDisconnected>>,
     <<"chat_invitation_received", "handleChatInvitationReceived">>,
     <<"chat_invitation_accepted", "handleChatInvitationAccepted">>,
     <<"chat_invitation_rejected", "handleChatInvitationRejected">> >>

\* websocketService.on(...) and websocketService.off(...) for each pair in turn.
RECURSIVE RegistryOnAll(_, _)
RegistryOnAll(reg, pairs) ==
  IF pairs = <<>> THEN reg
  ELSE RegistryOnAll(RegistryOn(reg, Head(pairs)[1], Head(pairs)[2]), Tail(pairs))

RECURSIVE RegistryOffAll(_, _)
RegistryOffAll(reg, pairs) ==
  IF pairs = <<>> THEN reg
  ELSE RegistryOffAll(RegistryOff(reg, Head(pairs)[1], Head(pairs)[2]), Tail(pairs))

\* The effect on [partner, user]: setupWebSocketConnection() up to its await of
\* websocketService.connect(user?.id).
ChatSetup ==
  /\ chat.mounted
  /\ chat.partner # Null
  /\ chat.setups < MaxSetups
  /\ SocketConnected \/ CanStartCall
  /\ chat' = [chat EXCEPT !.setups = @ + 1,
                          !.immediate = IF SocketConnected THEN @ + 1 ELSE @]
  /\ ConnectEntry("connect", ChatUser, Null, calls)

\* setupWebSocketConnection() after its await, with the value connect() gave.
SetupResumes(connected) ==
  IF connected
  THEN LET join == GuardedResult("join_room", [recipientId |-> chat.partner],
                                 "void", "void")
           named == RegistryOnAll(eventListeners, NamedRegistrations(chat.partner))
       IN /\ eventListeners' =
               RegistryOn(named, "room_joined", InlineListeners[chat.inline + 1])
          /\ out' = Out("setupWebSocketConnection", chat.partner, "true", join.sock,
                        join.emitted, <<>>, FALSE)
  ELSE /\ out' = Out("setupWebSocketConnection", chat.partner, "false", 0,
                     <<>>, <<>>, FALSE)
       /\ UNCHANGED eventListeners

\* The screen state after the await: setIsConnected(true) on success.
ResumedChat(ch, connected) ==
  IF connected THEN [ch EXCEPT !.isConnected = TRUE, !.inline = @ + 1] ELSE ch

\* The promise connect() returned for socket s has settled and a run of
\* setupWebSocketConnection resumes on it. (The screen is the only caller of
\* connect() in the behaviours that include this action.)
Settled(s) ==
  s \in 1..Len(sockets) /\ sockets[s].promise # "pending" /\ s \notin chat.resumed

ChatSetupSettled(s) ==
  /\ Settled(s)
  /\ SetupResumes(sockets[s].promise = "true")
  /\ chat' = [ResumedChat(chat, sockets[s].promise = "true")
                EXCEPT !.resumed = @ \cup {s}]
  /\ UNCHANGED <<socket, isConnected, reconnectAttempts, currentUserId, sockets, calls>>

\* A run whose connect() returned true at once (already connected) resumes.
ChatSetupReturned ==
  /\ chat.immediate > 0
  /\ SetupResumes(TRUE)
  /\ chat' = [ResumedChat(chat, TRUE) EXCEPT !.immediate = @ - 1]
  /\ UNCHANGED <<socket, isConnected, reconnectAttempts, currentUserId, sockets, calls>>

\* A continuation of an await is a microtask: it runs before the next timer,
\* socket or user event.
ContinuationDue == chat.immediate > 0 \/ \E s \in 1..MaxSockets : Settled(s)

\* The cleanup of the mount effect, useEffect(..., []): it closes over the
\* values of the first render, where partner is null.
CleanupPartner == ChatInit.partner

ChatUnmount ==
  /\ chat.mounted
  /\ chat' = [chat EXCEPT !.mounted = FALSE]
  /\ LET leave == IF CleanupPartner # Null
                  THEN GuardedResult("leave_room", [recipientId |-> CleanupPartner],
                                     "void", "void")
                  ELSE [ret |-> "void", sock |-> 0, emitted |-> <<>>]
     IN /\ eventListeners' =
             RegistryOffAll(eventListeners, NamedRegistrations(CleanupPartner))
        /\ out' = Out("unmount", Undefined, "void", leave.sock, leave.emitted,
                      <<>>, FALSE)
  /\ UNCHANGED <<socket, isConnected, reconnectAttempts, currentUserId, sockets, calls>>

\* ------------------------------------------------ ChatScreen: sendMessage
\* The input text is a string of characters; String.prototype.trim removes the
\* white space at both ends.
Chars == {" ", "h"}
MaxText == 2         \* characters typed into the input
InputTexts == UNION {[1..n -> Chars] : n \in 0..MaxText}

RECURSIVE TrimStart(_)
TrimStart(s) == IF s # <<>> /\ Head(s) = " " THEN TrimStart(Tail(s)) ELSE s

RECURSIVE TrimEnd(_)
TrimEnd(s) ==
  IF s # <<>> /\ s[Len(s)] = " " THEN TrimEnd(SubSeq(s, 1, Len(s) - 1)) ELSE s

Trim(s) == TrimEnd(TrimStart(s))

\* The arguments of websocketService.sendMessage / apiService.sendMessage
MessageOf(recipientId, content) ==
  [recipientId |-> recipientId, content |-> content, type |-> "TEXT"]

\* if (isConnected) websocketService.sendTypingStatus(partner.id, false)
StopTyping(screenConnected, recipientId) ==
  IF screenConnected
  THEN GuardedResult("typing", [recipientId |-> recipientId, isTyping |-> FALSE],
                     "void", "void").emitted
  ELSE <<>>

ChatSendBothPaths(text) ==
  /\ chat.mounted
  /\ IF Trim(text) = <<>> \/ chat.partner = Null \/ chat.sending
     THEN /\ out' = [Out("chatSend", Undefined, "ignored", 0, <<>>, <<>>, FALSE)
                    EXCEPT !.data = [text |-> text]]
          /\ UNCHANGED chat
     ELSE LET message == MessageOf(chat.partner, Trim(text))
              sent == GuardedResult("send_message", message, "true", "false")
          IN /\ out' = [Out("chatSend", Undefined, "api", sent.sock, sent.emitted,
                            <<>>, FALSE)
                          EXCEPT !.api = <<message>>, !.data = [text |-> text]]
             /\ chat' = [chat EXCEPT !.sending = TRUE,
                           !.apiCall = <<[isConnected |-> chat.isConnected]>>]
  /\ UNCHANGED <<socket, isConnected, reconnectAttempts, currentUserId,
                 eventListeners, sockets, calls>>

\* sendMessage() of the screen with `text` in the input, up to its first await
\* or to its end.
ChatSend(text) ==
  /\ chat.mounted
  /\ IF Trim(text) = <<>> \/ chat.partner = Null \/ chat.sending
     THEN /\ out' = [Out("chatSend", Undefined, "ignored", 0, <<>>, <<>>, FALSE)
                    EXCEPT !.data = [text |-> text]]
          /\ UNCHANGED chat
     ELSE LET message == MessageOf(chat.partner, Trim(text))
              sent == GuardedResult("send_message", message, "true", "false")
          IN IF chat.isConnected /\ Connected /\ sent.ret = "true"
             THEN /\ out' = [Out("chatSend", Undefined, "websocket", sent.sock,
                                 sent.emitted
                                   \o StopTyping(chat.isConnected, chat.partner),
                                 <<>>, FALSE) EXCEPT !.data = [text |-> text]]
                  /\ UNCHANGED chat
             ELSE /\ out' = [Out("chatSend", Undefined, "api",
                                 IF chat.isConnected /\ Connected THEN sent.sock ELSE 0,
                                 IF chat.isConnected /\ Connected THEN sent.emitted
                                 ELSE <<>>,
                                 <<>>, FALSE)
                               EXCEPT !.api = <<message>>, !.data = [text |-> text]]
                  /\ chat' = [chat EXCEPT !.sending = TRUE,
                                !.apiCall = <<[isConnected |-> chat.isConnected]>>]
  /\ UNCHANGED <<socket, isConnected, reconnectAttempts, currentUserId,
                 eventListeners, sockets, calls>>

\* apiService.sendMessage settles: on success the typing status is cleared with
\* the isConnected value the call closed over; on failure the catch block runs
\* and raises a ReferenceError at setInputText(messageText), messageText being
\* a const of the try block, so the promise of sendMessage() rejects; finally
\* setSending(false) runs in both cases.
ApiOutcomes == {"resolved", "rejected"}

ApiSendSettles(outcome) ==
  /\ chat.apiCall # <<>>
  /\ chat' = [chat EXCEPT !.sending = FALSE, !.apiCall = <<>>]
  /\ out' = Out("apiSendSettles", outcome, "void", 0,
                IF outcome = "resolved"
                THEN StopTyping(chat.apiCall[1].isConnected, chat.partner) ELSE <<>>,
                <<>>, outcome = "rejected")
  /\ UNCHANGED <<socket, isConnected, reconnectAttempts, currentUserId,
                 eventListeners, sockets, calls>>

\* ---------------------------------------------------------- specification
Init ==
  /\ socket = 0
  /\ isConnected = FALSE
  /\ reconnectAttempts = 0
  /\ currentUserId = Null
  /\ eventListeners = [e \in {} |-> <<>>]
  /\ sockets = <<>>
  /\ calls = EmptyBag
  /\ out = Out("init", Undefined, "void", 0, <<>>, <<>>, FALSE)
  /\ chat = ChatInit

\* Connection lifecycle: the public calls, the token store and the socket
\* library's connection events.
Lifecycle ==
  \/ \E u \in Users : Connect(u)
  \/ \E c \in Pending : TokenFound(c)
  \/ \E c \in Pending : TokenEmpty(c)
  \/ \E c \in Pending : TokenThrows(c)
  \/ \E c \in Pending : TokenRetry(c)
  \/ Disconnect
  \/ Reconnect
  \/ \E c \in Pending : ReconnectDelayElapsed(c)
  \/ \E s \in 1..MaxSockets : SocketConnect(s)
  \/ \E s \in 1..MaxSockets : SocketConnectError(s)
  \/ \E s \in 1..MaxSockets, r \in Reasons : SocketDisconnect(s, r)

Operations ==
  \/ \E r \in Recipients : JoinRoom(r)
  \/ \E r \in Recipients : LeaveRoom(r)
  \/ \E r \in Recipients, c \in Contents, t \in MessageTypes : SendMessage(r, c, t)
  \/ \E m \in MessageIds : MarkMessageAsRead(m)
  \/ \E r \in Recipients, b \in BOOLEAN : SendTypingStatus(r, b)
  \/ GetActiveUsers
  \/ \E r \in Recipients, c \in Contents : SendChatInvitation(r, c)
  \/ \E i \in InvitationIds : AcceptChatInvitation(i)
  \/ \E i \in InvitationIds : RejectChatInvitation(i)
  \/ \E e \in CustomEvents, d \in Payloads : EmitEvent(e, d)

Subscriptions ==
  \/ \E e \in RegistryNames, l \in Listeners : On(e, l)
  \/ \E e \in RegistryNames, l \in Listeners : Off(e, l)

Deliveries ==
  \/ \E s \in 1..MaxSockets, d \in Payloads : SocketError(s, d)
  \/ \E s \in 1..MaxSockets, n \in ServerNames, d \in Payloads : SocketInbound(s, n, d)

\* One session: the path to a connected socket, without failures, up to
\* disconnect().
Session ==
  \/ \E u \in Users : sockets = <<>> /\ calls = EmptyBag /\ Connect(u)
  \/ \E c \in Pending : TokenFound(c)
  \/ Disconnect
  \/ \E s \in 1..MaxSockets : SocketConnect(s)
  \/ \E s \in 1..MaxSockets, r \in Reasons : SocketDisconnect(s, r)

\* The connection manager with its token store and sockets.
Next == Lifecycle
Spec == Init /\ [][Next]_vars

\* The connection manager and the guarded operations of its callers.
NextOps == Lifecycle \/ Operations
SpecOps == Init /\ [][NextOps]_vars

\* The event registry over one session: subscriptions and dispatches.
NextEvents == Session \/ Subscriptions \/ Deliveries
SpecEvents == Init /\ [][NextEvents]_vars

\* The guarded operations over one session.
NextSend == Session \/ Operations
SpecSend == Init /\ [][NextSend]_vars

\* Subscriptions of callbacks that call on/off while they are dispatched.
ReentrantNames == {"new_message", "error"}
Reentrant ==
  \/ \E e \in ReentrantNames, l \in Callbacks : On(e, l)
  \/ \E e \in ReentrantNames, l \in Callbacks : Off(e, l)

\* The event registry over one session with such callbacks.
NextReentrant == Session \/ Reentrant \/ Deliveries
SpecReentrant == Init /\ [][NextReentrant]_vars

\* Connections opened one call at a time, closed and opened again, with a token
\* always present; a second call made before the socket of the first connected
\* opens a second socket.
Sessions ==
  \/ \E u \in Users : calls = EmptyBag /\ Connect(u)
  \/ \E c \in Pending : TokenFound(c)
  \/ Disconnect
  \/ calls = EmptyBag /\ Reconnect
  \/ \E c \in Pending : ReconnectDelayElapsed(c)
  \/ \E s \in 1..MaxSockets : SocketConnect(s)
  \/ \E s \in 1..MaxSockets : SocketDisconnect(s, "transport close")

\* Subscriptions to a server event, and the server events sent.
InboundNames == {"new_message", "room_joined"}
Listening == \E l \in Listeners : On("new_message", l)

Inbound ==
  \E s \in 1..MaxSockets, n \in InboundNames, d \in Payloads : SocketInbound(s, n, d)

\* Server events over successive and overlapping connections.
NextInbound == Sessions \/ Listening \/ Inbound
SpecInbound == Init /\ [][NextInbound]_vars

\* ChatScreen's typing indicator: the typing events it receives and its expiry
\* timers; a timer that stays pending fires.
NextTyping ==
  \/ SetPartner
  \/ \E u \in TypingUsers, b \in BOOLEAN : HandleUserTyping(u, b)
  \/ \E t \in 1..MaxTimers : TypingTimeoutFires(t)
SpecTyping ==
  Init /\ [][NextTyping]_vars /\ \A t \in 1..MaxTimers : WF_vars(TypingTimeoutFires(t))

\* The connection manager where every await ends: the token store answers,
\* a delay elapses, and a socket that is trying to connect (timeout option of
\* io()) fires 'connect' or 'connect_error'.
AwaitEnds ==
  \E c \in Pending :
    TokenFound(c) \/ TokenEmpty(c) \/ TokenThrows(c) \/ TokenRetry(c)
      \/ ReconnectDelayElapsed(c)
SocketAnswers(s) == SocketConnect(s) \/ SocketConnectError(s)
SpecFair ==
  Init /\ [][Next]_vars /\ WF_vars(AwaitEnds)
    /\ \A s \in 1..MaxSockets : WF_vars(SocketAnswers(s))

\* ChatScreen from mount to unmount over the service: the screen is the only
\* caller of connect(), the token is always present, and the continuation of an
\* await runs before any other event.
ScreenEvents ==
  \/ ~ContinuationDue /\ SetPartner
  \/ ~ContinuationDue /\ ChatSetup
  \/ \E c \in Pending : ~ContinuationDue /\ TokenFound(c)
  \/ \E s \in 1..MaxSockets : ~ContinuationDue /\ SocketConnect(s)
  \/ \E s \in 1..MaxSockets : ~ContinuationDue /\ SocketConnectError(s)
  \/ \E s \in 1..MaxSockets : ~ContinuationDue /\ SocketDisconnect(s, "transport close")
  \/ \E s \in 1..MaxSockets : ~ContinuationDue /\ SocketError(s, [id |-> "d1"])
  \/ \E text \in InputTexts : ~ContinuationDue /\ ChatSend(text)
  \/ \E o \in ApiOutcomes : ~ContinuationDue /\ ApiSendSettles(o)
  \/ ~ContinuationDue /\ ChatUnmount

NextChat ==
  \/ \E s \in 1..MaxSockets : ChatSetupSettled(s)
  \/ ChatSetupReturned
  \/ ScreenEvents
SpecChat == Init /\ [][NextChat]_vars

\* ================================================================ claims
Registered(reg, event, listener) == listener \in SeqRange(ListenersOf(reg, event))
DispatchOps == {"on_disconnect", "on_error", "inbound"}
InvokedListeners(o) == [i \in 1..Len(o.delivered) |-> o.delivered[i].listener]
State == <<socket, isConnected, reconnectAttempts, currentUserId, eventListeners,
           sockets, calls>>

\* C1: the promise of a connect() call that opened a socket is settled by the
\* first 'connect' (true) or 'connect_error' (false) of that socket, at that
\* event, and no later event or other step changes the settled value.
C1_PromiseSettledByFirstEvent ==
  [][\A s \in 1..Len(sockets) :
       LET fired == out'.sock = s /\ out'.op \in {"on_connect", "on_connect_error"}
       IN /\ sockets[s].promise # "pending" => sockets'[s].promise = sockets[s].promise
          /\ sockets[s].promise = "pending" /\ fired /\ out'.op = "on_connect"
               => sockets'[s].promise = "true" /\ out'.ret = "true"
          /\ sockets[s].promise = "pending" /\ fired /\ out'.op = "on_connect_error"
               => sockets'[s].promise = "false" /\ out'.ret = "false"
          /\ sockets[s].promise = "pending" /\ ~fired
               => sockets'[s].promise = "pending"]_vars

\* A 'connect' fired after a 'connect_error' had settled the promise with false.
C1_Witness ==
  /\ out.op = "on_connect"
  /\ out.ret = "none"
  /\ sockets[out.sock].promise = "false"

\* C2: a call whose maxRetries reads of the token store all yield no token ends
\* with false, without an exception, and neither that end nor any step of the
\* call before a socket is opened changes the socket handle, the sockets, the
\* isConnected flag or the cached user id.
C2_NoTokenResolvesFalse ==
  [][/\ \A c \in Pending : c.reads < maxRetries
     /\ out'.op = "no_token" =>
          /\ out'.ret = "false"
          /\ ~out'.threw
          /\ \E c \in Pending : c.pc = "read" /\ c.reads = maxRetries - 1
                                /\ calls' = Remove(c)
          /\ UNCHANGED <<socket, isConnected, currentUserId, sockets>>
     /\ out'.op \in {"connect", "await"} /\ Len(sockets') = Len(sockets) =>
          UNCHANGED <<socket, isConnected, currentUserId, sockets>>]_vars

\* A call ended without a token while a socket and a user id were held.
C2_Witness ==
  /\ out.op = "no_token"
  /\ out.ret = "false"
  /\ socket # 0
  /\ currentUserId # Null

\* C3: a guarded operation called while the `connected` getter is false
\* returns its failure value and emits nothing on the socket.
C3_GuardedWhenNotConnected ==
  out.op \in GuardedOps /\ ~Connected =>
    out.ret \in {"false", "void"} /\ out.emitted = <<>> /\ ~out.threw

\* C4: when a connect(userId) call resolves true, getConnectionStatus() reports
\* connected = true and userId = the argument of that call.
C4_StatusAfterConnect ==
  /\ out.op = "connect" /\ out.ret = "true" =>
       GetConnectionStatus.connected /\ GetConnectionStatus.userId = OrNull(out.arg)
  /\ out.op = "on_connect" /\ out.ret = "true" =>
       /\ GetConnectionStatus.connected
       /\ GetConnectionStatus.userId = OrNull(sockets[out.sock].arg)

\* C5: the connect call reconnect() makes after its delay gets the user id that
\* was cached when reconnect() was called.
C5_ReconnectKeepsUserId ==
  \A c \in Pending :
    c.kind = "reconnect" /\ c.pc # "delay" => c.userId = OrUndefined(c.held)

\* C6: off(event, listener) unregisters that listener from that event and from
\* nothing else; only on() registers; and a dispatch invokes registered
\* listeners only, all of them for `disconnected` and `error`.
C6_OffStopsDelivery ==
  [][/\ out'.op = "off" =>
          /\ ~Registered(eventListeners', out'.arg, out'.ret)
          /\ \A e \in RegistryNames, l \in Listeners :
               (e # out'.arg \/ l # out'.ret) =>
                 (Registered(eventListeners', e, l) <=> Registered(eventListeners, e, l))
     /\ out'.op # "on" =>
          \A e \in RegistryNames, l \in Listeners :
            Registered(eventListeners', e, l) => Registered(eventListeners, e, l)
     /\ out'.op \in DispatchOps =>
          \A i \in 1..Len(out'.delivered) :
            Registered(eventListeners', out'.delivered[i].event,
                       out'.delivered[i].listener)
     /\ out'.op = "on_disconnect" =>
          InvokedListeners(out') = ListenersOf(eventListeners', "disconnected")
     /\ out'.op = "on_error" =>
          InvokedListeners(out') = ListenersOf(eventListeners', "error")]_vars

\* off removed one listener of an event that keeps another one, while the
\* removed listener stays registered for another event.
C6_Witness ==
  /\ out.op = "off"
  /\ out.changed
  /\ ListenersOf(eventListeners, out.arg) # <<>>
  /\ \E e \in RegistryNames : e # out.arg /\ Registered(eventListeners, e, out.ret)

\* C7: a dispatch calls every listener registered for the event, also those
\* after a listener that raised, and no exception leaves the dispatch.
C7_ThrowingListenerIsolated ==
  /\ out.op \in DispatchOps => ~out.threw
  /\ out.op = "on_disconnect" =>
       InvokedListeners(out) = ListenersOf(eventListeners, "disconnected")
  /\ out.op = "on_error" =>
       InvokedListeners(out) = ListenersOf(eventListeners, "error")
  /\ out.op = "inbound" =>
       InvokedListeners(out) =
         Repeat(ListenersOf(eventListeners, out.arg), sockets[out.sock].handlers[out.arg])

\* A dispatch in which a listener raised and a later listener was still called.
C7_Witness ==
  /\ out.op \in DispatchOps
  /\ \E i, j \in 1..Len(out.delivered) :
       /\ i < j
       /\ Invoke(out.delivered[i].listener) = "raised"
       /\ Invoke(out.delivered[j].listener) = "returned"

\* C8: disconnect() with a socket closes it and clears the handle, the flag and
\* the cached user id; without a socket it changes nothing; it never throws and
\* always leaves the handle null, so a second call in a row changes nothing.
C8_DisconnectIdempotent ==
  [][out'.op = "disconnect" =>
       /\ ~out'.threw
       /\ socket' = 0
       /\ IF socket # 0
          THEN /\ sockets'[socket].status = "closed"
               /\ \A s \in 1..Len(sockets) : s # socket => sockets'[s] = sockets[s]
               /\ Len(sockets') = Len(sockets)
               /\ isConnected' = FALSE
               /\ currentUserId' = Null
          ELSE State' = State]_vars

\* disconnect() ran with a socket present.
C8_Witness ==
  /\ out.op = "disconnect"
  /\ out.sock # 0
  /\ sockets[out.sock].status = "closed"

\* C9: after disconnect() every socket the manager opened is closed.
C9_AllSocketsReleased ==
  out.op = "disconnect" => \A s \in 1..Len(sockets) : sockets[s].status = "closed"

\* C10: connect() called while the owned socket is connected returns true and
\* changes nothing: no token read, no socket, no handler, no field.
C10_ConnectWhenConnected ==
  [][SocketConnected /\ out'.op = "connect" =>
       out'.ret = "true" /\ State' = State]_vars

\* connect() returned true at once.
C10_Witness ==
  /\ out.op = "connect"
  /\ out.ret = "true"
  /\ SocketConnected

\* C11: getAuthTokenWithRetry makes at most maxRetries reads of the token store
\* and at most maxRetries - 1 waits, one wait after each attempt without a token
\* except the last; a read that yields a token ends the retrieval at once (the
\* socket is opened in the same step); and the retrieval ends without a token
\* only at the last attempt, after maxRetries - 1 earlier reads and waits.
C11_TokenRetryBounded ==
  [][/\ \A c \in Pending :
          /\ c.i < maxRetries
          /\ c.pc = "read" => c.reads = c.i /\ c.waits = c.i
          /\ c.pc = "sleep" => /\ c.reads = c.i + 1 /\ c.waits = c.i + 1
                               /\ c.waits <= maxRetries - 1
          /\ c.pc \in {"read", "sleep"} /\ c \notin BagToSet(calls') =>
               \/ c.pc = "read" /\ Len(sockets') = Len(sockets) + 1
                    /\ calls' = Remove(c)
               \/ c.pc = "read" /\ c.i = maxRetries - 1 /\ out'.op = "no_token"
                    /\ sockets' = sockets /\ calls' = Remove(c)
               \/ c.pc = "read" /\ c.i < maxRetries - 1
                    /\ calls' = Replace(c, [c EXCEPT !.pc = "sleep",
                                            !.reads = c.reads + 1, !.waits = c.waits + 1])
               \/ c.pc = "sleep"
                    /\ calls' = Replace(c, [c EXCEPT !.pc = "read", !.i = c.i + 1])
     /\ out'.op = "no_token" =>
          \E c \in Pending : /\ c.pc = "read" /\ c.i = maxRetries - 1
                              /\ c.waits = maxRetries - 1 /\ calls' = Remove(c)]_vars

\* The third read of the token store is under way after two reads without a
\* token and two waits.
C11_Witness ==
  \E c \in Pending :
    c.pc = "read" /\ c.i = maxRetries - 1 /\ c.reads = maxRetries - 1
                 /\ c.waits = maxRetries - 1

\* C12: a guarded operation called while the socket is connected emits exactly
\* one event on the owned socket, with the name and the payload fields of the
\* operation; sendMessage and the invitation operations return true.
C12_GuardedEmitsOne ==
  SocketConnected /\ out.op \in GuardedOps \ {"emitEvent"} =>
    /\ Len(out.emitted) = 1
    /\ out.emitted[1].sock = socket
    /\ ~out.threw
    /\ LET name == out.emitted[1].name
           payload == out.emitted[1].payload
       IN /\ out.op = "joinRoom" =>
               name = "join_room" /\ \E r \in Recipients : payload = [recipientId |-> r]
          /\ out.op = "leaveRoom" =>
               name = "leave_room" /\ \E r \in Recipients : payload = [recipientId |-> r]
          /\ out.op = "sendMessage" =>
               /\ name = "send_message"
               /\ \E r \in Recipients, c \in Contents, ty \in MessageTypes :
                    payload = [recipientId |-> r, content |-> c, type |-> ty]
               /\ out.ret = "true"
          /\ out.op = "markMessageAsRead" =>
               name = "mark_message_read"
               /\ \E m \in MessageIds : payload = [messageId |-> m]
          /\ out.op = "sendTypingStatus" =>
               name = "typing"
               /\ \E r \in Recipients, b \in BOOLEAN :
                    payload = [recipientId |-> r, isTyping |-> b]
          /\ out.op = "getActiveUsers" =>
               name = "get_active_users" /\ payload = NoPayload
          /\ out.op = "sendChatInvitation" =>
               /\ name = "send_chat_invitation"
               /\ \E r \in Recipients, c \in Contents :
                    payload = [recipientId |-> r, message |-> c]
               /\ out.ret = "true"
          /\ out.op = "acceptChatInvitation" =>
               /\ name = "accept_chat_invitation"
               /\ \E i \in InvitationIds : payload = [invitationId |-> i]
               /\ out.ret = "true"
          /\ out.op = "rejectChatInvitation" =>
               /\ name = "reject_chat_invitation"
               /\ \E i \in InvitationIds : payload = [invitationId |-> i]
               /\ out.ret = "true"

\* sendMessage was called on a connected socket and emitted send_message.
C12_Witness ==
  /\ SocketConnected
  /\ out.op = "sendMessage"
  /\ out.ret = "true"
  /\ Len(out.emitted) = 1
  /\ out.emitted[1].name = "send_message"

Count(s, x) == Cardinality({i \in 1..Len(s) : s[i] = x})

\* C13: after on(event, listener) the listener is registered for the event
\* exactly once, however often it was registered before; no listener set ever
\* holds a reference twice; one dispatch pass (the 'disconnect' and 'error'
\* callbacks run one) invokes every registered listener exactly once; and after
\* one off(event, listener) the listener is not registered for the event.
C13_OnSetSemantics ==
  [][/\ out'.op = "on" =>
          Count(ListenersOf(eventListeners', out'.arg), out'.ret) = 1
     /\ \A e \in DOMAIN eventListeners', l \in Listeners :
          Count(eventListeners'[e], l) <= 1
     /\ out'.op \in {"on_disconnect", "on_error"} =>
          \A l \in Listeners :
            Count(InvokedListeners(out'), l) =
              IF Registered(eventListeners, out'.arg, l) THEN 1 ELSE 0
     /\ out'.op = "off" =>
          Count(ListenersOf(eventListeners', out'.arg), out'.ret) = 0]_vars

\* on() was called for a listener that was already registered for the event.
C13_Witness ==
  /\ out.op = "on"
  /\ ~out.changed
  /\ Registered(eventListeners, out.arg, out.ret)

\* C14: no key of the registry maps to an empty listener set: off removes the
\* key with the last listener of the event, and off for an event without
\* listeners or for a listener that is not registered changes nothing.
C14_NoEmptyListenerSet ==
  [][/\ \A e \in DOMAIN eventListeners' : eventListeners'[e] # <<>>
     /\ out'.op = "off" =>
          /\ ~Registered(eventListeners, out'.arg, out'.ret) =>
               eventListeners' = eventListeners /\ ~out'.changed
          /\ ListenersOf(eventListeners, out'.arg) = <<out'.ret>> =>
               out'.arg \notin DOMAIN eventListeners']_vars

\* off removed the last listener of an event, and the key with it, while
\* another event keeps its listeners.
C14_Witness ==
  /\ out.op = "off"
  /\ out.changed
  /\ out.arg \notin DOMAIN eventListeners
  /\ DOMAIN eventListeners # {}

\* C15: a dispatch pass invokes exactly the listeners that were registered for
\* the event when the pass started, in their order, whatever the listeners do
\* to the registry during the pass (the 'disconnect' and 'error' callbacks and
\* a server event with one handler run one pass).
C15_DispatchOverSnapshot ==
  [][/\ out'.op \in {"on_disconnect", "on_error"} =>
          InvokedListeners(out') = ListenersOf(eventListeners, out'.arg)
     /\ out'.op = "inbound" /\ sockets[out'.sock].handlers[out'.arg] = 1 =>
          InvokedListeners(out') = ListenersOf(eventListeners, out'.arg)]_vars

\* C16: the owned socket, once connected, holds a handler for each of the
\* eight forwarded names; a server event under one of them that reaches the
\* owned socket is dispatched to every listener registered for that name, and
\* every listener call it makes has that name and the payload received.
C16_InboundForwarded ==
  [][/\ SocketConnected' =>
          \A n \in ForwardedNames : sockets'[socket'].handlers[n] >= 1
     /\ out'.op = "inbound" /\ out'.sock = socket /\ out'.arg \in ForwardedNames =>
          /\ \A l \in Listeners :
               Registered(eventListeners, out'.arg, l) =>
                 l \in SeqRange(InvokedListeners(out'))
          /\ \A i \in 1..Len(out'.delivered) :
               /\ out'.delivered[i].event = out'.arg
               /\ out'.delivered[i].data = out'.data
               /\ Registered(eventListeners, out'.arg, out'.delivered[i].listener)]_vars

\* A server event reached listeners through the owned socket while another
\* socket had been opened before it.
C16_Witness ==
  /\ out.op = "inbound"
  /\ out.sock = socket
  /\ out.arg \in ForwardedNames
  /\ out.delivered # <<>>
  /\ Len(sockets) >= 2

\* C19: no step of connect, disconnect or reconnect, and no connection event of
\* a socket, changes the registry; and the listeners registered before a
\* socket was closed receive the server events of the socket opened after it.
C19_RegistrySurvivesCycle ==
  [][/\ out'.op \in {"connect", "reconnect", "reconnect_connect", "await", "no_token",
                     "disconnect", "on_connect", "on_connect_error", "on_disconnect"} =>
          eventListeners' = eventListeners
     /\ out'.op = "inbound" /\ out'.sock = socket /\ out'.arg \in ForwardedNames =>
          \A l \in Listeners :
            Registered(eventListeners, out'.arg, l) =>
              l \in SeqRange(InvokedListeners(out'))]_vars

\* After the first socket was closed, a server event of the second socket
\* reached a listener.
C19_Witness ==
  /\ out.op = "inbound"
  /\ Len(sockets) >= 2
  /\ sockets[1].status = "closed"
  /\ out.sock = socket
  /\ out.sock # 1
  /\ out.delivered # <<>>

\* The listener calls of one pass over the listeners ls.
Pass(ls, event, data) == [i \in 1..Len(ls) |-> Invocation(event, data, ls[i])]

\* C17: when a socket fires 'disconnect' with a reason the client did not
\* request, the isConnected flag is false afterwards, the registry listeners of
\* `disconnected` are each called once with that reason, and the socket handle
\* and the cached user id keep their values.
C17_UnsolicitedDisconnect ==
  [][out'.op = "on_disconnect" =>
       /\ \E r \in Reasons : out'.data = [reason |-> r]
       /\ isConnected' = FALSE
       /\ out'.delivered =
            Pass(ListenersOf(eventListeners, "disconnected"), "disconnected", out'.data)
       /\ ~out'.threw
       /\ socket' = socket
       /\ currentUserId' = currentUserId]_vars

\* A transport drop of the owned socket reached a `disconnected` listener.
C17_Witness ==
  /\ out.op = "on_disconnect"
  /\ out.delivered # <<>>
  /\ out.sock = socket
  /\ ~isConnected
  /\ currentUserId # Null

\* C18: when a socket fires 'error', the registry listeners of `error` are each
\* called once with the error value received, no exception leaves the
\* callback, and the isConnected flag, the socket handle and the cached user id
\* keep their values.
C18_ErrorForwarded ==
  [][out'.op = "on_error" =>
       /\ out'.data \in Payloads
       /\ out'.delivered = Pass(ListenersOf(eventListeners, "error"), "error", out'.data)
       /\ ~out'.threw
       /\ isConnected' = isConnected
       /\ socket' = socket
       /\ currentUserId' = currentUserId]_vars

\* A socket error reached an `error` listener while the service was connected.
C18_Witness ==
  /\ out.op = "on_error"
  /\ out.delivered # <<>>
  /\ isConnected
  /\ socket # 0

\* C20: a typing event of the partner with isTyping = true sets the indicator
\* and replaces the pending expiry timer, if any, by a new one, so that at most
\* one timer is pending and the indicator is only set while one is; a typing
\* event of another user changes nothing of the screen; and a pending timer of
\* a set indicator leads to the indicator being reset, unless a further typing
\* event cancels that timer.
C20_TypingIndicatorExpires ==
  /\ [][out'.op = "handleUserTyping" =>
          IF out'.arg = chat.partner
          THEN /\ chat'.partnerTyping = out'.data.isTyping
               /\ IF out'.data.isTyping
                  THEN /\ chat'.typingTimeoutRef \notin chat.timers
                       /\ chat'.timers = {chat'.typingTimeoutRef}
                  ELSE chat'.timers = chat.timers
          ELSE chat' = chat]_vars
  /\ [](Cardinality(chat.timers) <= 1)
  /\ [](chat.partnerTyping => chat.typingTimeoutRef \in chat.timers)
  /\ \A t \in 1..MaxTimers :
       (chat.partnerTyping /\ t \in chat.timers)
         ~> (~chat.partnerTyping \/ t \notin chat.timers)

\* A second typing event of the partner replaced the timer of the first.
C20_Witness ==
  /\ out.op = "handleUserTyping"
  /\ out.arg = chat.partner
  /\ chat.partnerTyping
  /\ chat.typingTimeoutRef >= 2
  /\ chat.timers = {chat.typingTimeoutRef}

\* C21: ChatScreen.sendMessage, called with text that is not empty once
\* trimmed, a partner and no send in progress, hands the message to exactly one
\* path: to the socket when the screen's isConnected and the service's
\* `connected` are both true (websocketService.sendMessage then returns true),
\* otherwise to apiService.sendMessage.
SendEmissions(o) ==
  Count([i \in 1..Len(o.emitted) |-> o.emitted[i].name], "send_message")

C21_ExactlyOneDeliveryPath ==
  [][out'.op = "chatSend" /\ Trim(out'.data.text) # <<>> /\ chat.partner # Null
       /\ ~chat.sending
       => /\ SendEmissions(out') + Len(out'.api) = 1
          /\ SendEmissions(out') = 1 <=> chat.isConnected /\ Connected
          /\ \A i \in 1..Len(out'.emitted) :
               out'.emitted[i].name = "send_message"
                 => out'.emitted[i].payload = MessageOf(chat.partner, Trim(out'.data.text))
          /\ \A i \in 1..Len(out'.api) :
               out'.api[i] = MessageOf(chat.partner, Trim(out'.data.text))]_vars

\* A message went to the REST client, and only there, although the service was
\* connected: the screen's flag had been cleared by a `disconnected` event
\* before the socket connected again.
C21_Witness ==
  /\ out.op = "chatSend" /\ out.ret = "api" /\ Len(out.api) = 1
  /\ Connected /\ ~chat.isConnected

\* C22: for new_message, message_read, user_typing, user_online, user_offline
\* and user_joined_room, an event received from the server invokes every
\* listener registered for its name exactly once, whatever number of 'connect'
\* events the socket has fired.
SingleHandlerNames ==
  {"new_message", "message_read", "user_typing", "user_online", "user_offline",
   "user_joined_room"}

C22_OnceAfterAnyConnects ==
  [][out'.op = "inbound" /\ out'.arg \in SingleHandlerNames
       => \A l \in SeqRange(ListenersOf(eventListeners, out'.arg)) :
            Count(InvokedListeners(out'), l) = 1]_vars

\* C23: on a socket that has fired exactly one 'connect', a room_joined or
\* room_left event received from the server invokes every listener registered
\* for its name exactly once.
RoomNames == {"room_joined", "room_left"}

C23_RoomEventOnce ==
  [][out'.op = "inbound" /\ out'.arg \in RoomNames /\ sockets[out'.sock].connects = 1
       => \A l \in SeqRange(ListenersOf(eventListeners, out'.arg)) :
            Count(InvokedListeners(out'), l) = 1]_vars

\* C24: the registry dispatches only the eight forwarded names, `disconnected`
\* and `error`; a listener registered for any other name is never invoked, also
\* when the server sends an event of that name.
DispatchedNames == ForwardedNames \cup {"disconnected", "error"}

C24_OnlyForwardedNamesDispatched ==
  /\ \A i \in 1..Len(out.delivered) : out.delivered[i].event \in DispatchedNames
  /\ out.op = "inbound" /\ out.arg \notin DispatchedNames => out.delivered = <<>>

\* The server sent chat_invitation_received on a connected socket while a
\* listener was registered for it, and nothing was invoked.
C24_Witness ==
  /\ out.op = "inbound" /\ out.arg = "chat_invitation_received"
  /\ ListenersOf(eventListeners, "chat_invitation_received") # <<>>
  /\ out.delivered = <<>>

\* C25: once a 'connect_error' has resolved a connect() call with false, the
\* `connected` getter stays false and no server event is dispatched until
\* connect() or reconnect() is called again; in particular the step right after
\* that event, unless it is such a call, leaves `connected` false.
CallOps == {"connect", "reconnect"}

C25_StaysDownAfterConnectError ==
  [][out.op = "on_connect_error" /\ out.ret = "false" /\ out'.op \notin CallOps
       => /\ ~Connected'
          /\ out'.op = "inbound" => out'.delivered = <<>>]_vars

\* C26: when isConnected is true the owned handle is not null, and a 'connect'
\* that sets the flag, or an event that is dispatched to the registry, comes
\* from the owned socket.
C26_FlagSetByOwnedSocket ==
  [][/\ isConnected' => socket' # 0
     /\ out'.op = "on_connect" => out'.sock = socket'
     /\ out'.op \in DispatchOps => out'.sock = socket]_vars

\* C27: when a connect() call opens its socket while the promise of an earlier
\* connect() call is still pending, every socket opened so far is the owned
\* handle or has been closed.
C27_OverlappingConnectsOneSocket ==
  [][(/\ Len(sockets') = Len(sockets) + 1
      /\ \E e \in 1..Len(sockets) : sockets[e].promise = "pending")
       => \A s \in 1..Len(sockets') :
            s = socket' \/ sockets'[s].status = "closed"]_vars

\* C28: the promise of every connect() call that opened a socket is eventually
\* settled, also when disconnect() closes that socket first.
PromiseSettled(s) == s <= Len(sockets) /\ sockets[s].promise # "pending"

C28_ConnectEventuallyResolves ==
  \A s \in 1..MaxSockets : [](Len(sockets) >= s => <>PromiseSettled(s))

\* C29: once the unmount cleanup of ChatScreen has run, none of the listeners
\* the screen registered (the eight named ones and the room_joined functions)
\* is left in the registry, however often setupWebSocketConnection ran.
ScreenListeners ==
  {NamedRegistrations(p)[i][2] : p \in {Null, Partner}, i \in 1..8}
    \cup SeqRange(InlineListeners)

C29_UnmountRemovesScreenListeners ==
  out.op = "unmount"
    => \A e \in DOMAIN eventListeners :
         SeqRange(eventListeners[e]) \cap ScreenListeners = {}

====
